---- MODULE Spec2Model ----
(***************************************************************************)
(* A model of gradio's HTTP server, src/gradio/routes.py: the cookie login *)
(* (get_current_user, login_check, get_token, login), the configuration   *)
(* routes (main, get_config), the prediction route with its session store *)
(* (predict) and the path sanitiser behind the static routes (safe_join). *)
(***************************************************************************)
EXTENDS Integers, Sequences, FiniteSets, TLC

VARIABLES
    auth,          \* app.auth: the auth policy (None, a table, or a callable)
    show_error,    \* app.blocks.show_error
    share,         \* app.blocks.share
    tokens,        \* app.tokens: token -> username
    state_holder,  \* app.state_holder: session_hash -> state blob
    reqs,          \* per client connection: its POST /api/predict/ request
    resp,          \* the last exchange on one of the synchronous routes
    file_resp      \* the last exchange on /static/ or /assets/

vars == <<auth, show_error, share, tokens, state_holder, reqs, resp, file_resp>>

-----------------------------------------------------------------------------
(* Bounds of the model. *)

\* Number of client connections that issue predict requests concurrently.
MaxClients == 2
\* Number of successful logins (tokens issued) in a run.
MaxLogins == 2
\* Longest path handed to the static routes, in characters.
MaxPathLen == 6

-----------------------------------------------------------------------------
(* Values. *)

\* Python's None, where the other values are strings.
None == "None"

Users == {"admin", "guest"}
Passwords == {"secret", "pw"}
Clients == 1 .. MaxClients
TokenSpace == 1 .. MaxLogins
SessionKeys == {"s1", "s2"}

\* A dict: a function on the set of its keys.
EmptyDict == [k \in {} |-> None]

Put(d, k, v) == [x \in DOMAIN d \cup {k} |-> IF x = k THEN v ELSE d[x]]

\* dict.get(k): an Optional key is a set of at most one element.
Get(d, optkey) ==
    IF \E k \in optkey : k \in DOMAIN d
    THEN d[CHOOSE k \in optkey : k \in DOMAIN d]
    ELSE None

\* request.cookies: no access-token cookie, or one with any token value.
CookieJars == {{}} \cup {{t} : t \in TokenSpace}

(* The auth policies app.auth may hold. *)
NoAuth == [kind |-> "none", table |-> EmptyDict, accepts |-> {}]
TableAuth(t) == [kind |-> "table", table |-> t, accepts |-> {}]
CallableAuth(s) == [kind |-> "callable", table |-> EmptyDict, accepts |-> s]

Policies ==
    { NoAuth,
      TableAuth(Put(EmptyDict, "admin", "secret")),
      CallableAuth({<<"guest", "secret">>, <<"guest", "pw">>,
                    <<"admin", "pw">>}) }

(* app.blocks: the blocks with their stateful flag and default value, the *)
(* declared input components of the function, config and auth_message.    *)
blocks ==
    Put(Put(EmptyDict,
            "state", [stateful |-> TRUE, default_value |-> "default"]),
            "text", [stateful |-> FALSE, default_value |-> None])

input_components == <<"text", "state">>

StateValues == {"default", "changed"}

auth_message == "please log in"

\* app.blocks.config, and the document main builds for a caller who is not
\* logged in: {"auth_required": True, "auth_message": ...}.
config == [kind |-> "config", auth_required |-> FALSE, auth_message |-> None]
auth_stub ==
    [kind |-> "stub", auth_required |-> TRUE, auth_message |-> auth_message]
NoDoc == [kind |-> "none", auth_required |-> FALSE, auth_message |-> None]

-----------------------------------------------------------------------------
(* Auth. *)

\* get_current_user: the username the access-token cookie maps to, or None.
get_current_user(cookies) == Get(tokens, cookies)

\* login_check with its test of the user inverted.
login_check_inverted(user) ==
    IF auth.kind = "none" \/ user = None THEN "pass" ELSE "401"

\* login_check: None when the request passes, 401 when it is refused.
login_check(user) ==
    IF auth.kind = "none" \/ ~(user = None) THEN "pass" ELSE "401"

\* login's condition without the comparison of the password.
credentials_ok_name_only(username, password) ==
    \/ /\ auth.kind = "table"
       /\ username \in DOMAIN auth.table
    \/ /\ auth.kind = "callable"
       /\ <<username, password>> \in auth.accepts

\* The condition of login's if: the credentials are accepted by the policy.
credentials_ok(username, password) ==
    \/ /\ auth.kind = "table"
       /\ username \in DOMAIN auth.table
       /\ auth.table[username] = password
    \/ /\ auth.kind = "callable"
       /\ <<username, password>> \in auth.accepts

\* A token source that may repeat a token it has issued.
token_urlsafe_reused == TokenSpace

\* secrets.token_urlsafe(16): 128 random bits, modelled as any token that is
\* not in the table yet. Once MaxLogins tokens are issued no login succeeds.
token_urlsafe == TokenSpace \ DOMAIN tokens

NoResp ==
    [route |-> "none", cookies |-> {}, username |-> None, password |-> None,
     status |-> "none", token |-> {}, user |-> None, doc |-> NoDoc]


\* The bodies of predict's responses, and what process_api did: nothing yet,
\* an output list, the envelope {"error": message}, an exception, and the
\* detail of an HTTPException.
NoBody == [kind |-> "none", type |-> None, msg |-> None, out |-> <<>>]
OutputBody(output) == [NoBody EXCEPT !.kind = "output", !.out = output]
ErrorBody(message) == [NoBody EXCEPT !.kind = "error", !.msg = message]
ExceptionBody(error) ==
    [NoBody EXCEPT !.kind = "exception", !.type = error.type, !.msg = error.msg]
DetailBody(detail) == [NoBody EXCEPT !.kind = "detail", !.msg = detail]

\* A connection with no predict request on it.
Idle ==
    [pc |-> "idle", cookies |-> {}, user |-> None, sh |-> {}, data |-> <<>>,
     invoked |-> FALSE, handed |-> EmptyDict, local |-> EmptyDict,
     outcome |-> NoBody, status |-> "none", body |-> NoBody]

\* get_current_user as the route GET /user.
GetUser(cookies) ==
    /\ resp' = [NoResp EXCEPT !.route = "user", !.cookies = cookies,
                              !.status = "200",
                              !.user = get_current_user(cookies)]
    /\ UNCHANGED <<auth, show_error, share, tokens, state_holder, reqs, file_resp>>

\* get_token: GET /token.
GetToken(cookies) ==
    /\ resp' = [NoResp EXCEPT !.route = "token", !.cookies = cookies,
                              !.status = "200", !.token = cookies,
                              !.user = Get(tokens, cookies)]
    /\ UNCHANGED <<auth, show_error, share, tokens, state_holder, reqs, file_resp>>

\* login: POST /login. With app.auth None the membership test raises.
Login(username, password) ==
    /\ IF auth.kind = "none"
       THEN /\ resp' = [NoResp EXCEPT !.route = "login", !.username = username,
                                      !.password = password, !.status = "raise"]
            /\ UNCHANGED tokens
       ELSE IF credentials_ok(username, password)
       THEN \E token \in token_urlsafe :
              /\ tokens' = Put(tokens, token, username)
              /\ resp' = [NoResp EXCEPT !.route = "login", !.username = username,
                                        !.password = password, !.status = "302",
                                        !.token = {token}]
       ELSE /\ resp' = [NoResp EXCEPT !.route = "login", !.username = username,
                                      !.password = password, !.status = "400"]
            /\ UNCHANGED tokens
    /\ UNCHANGED <<auth, show_error, share, state_holder, reqs, file_resp>>

\* main: GET / embeds the configuration, or the auth stub, in the page.
Main(cookies) ==
    /\ LET user == get_current_user(cookies) IN
       resp' = [NoResp EXCEPT
                  !.route = "main", !.cookies = cookies, !.status = "200",
                  !.doc = IF auth.kind = "none" \/ ~(user = None)
                          THEN config
                          ELSE auth_stub]
    /\ UNCHANGED <<auth, show_error, share, tokens, state_holder, reqs, file_resp>>

\* get_config without its login_check dependency.
GetConfig_ungated(cookies) ==
    /\ resp' = [NoResp EXCEPT !.route = "config", !.cookies = cookies,
                              !.status = "200", !.doc = config]
    /\ UNCHANGED <<auth, show_error, share, tokens, state_holder, reqs, file_resp>>

\* get_config: GET /config behind the login_check dependency.
GetConfig(cookies) ==
    /\ IF login_check(get_current_user(cookies)) = "401"
       THEN resp' = [NoResp EXCEPT !.route = "config", !.cookies = cookies,
                                   !.status = "401"]
       ELSE resp' = [NoResp EXCEPT !.route = "config", !.cookies = cookies,
                                   !.status = "200", !.doc = config]
    /\ UNCHANGED <<auth, show_error, share, tokens, state_holder, reqs, file_resp>>

-----------------------------------------------------------------------------
(* POST /api/predict/. *)

\* The request bodies: session_hash absent or present, and the data list.
DataLists == {<<"x", "y">>, <<"x", "y", "z">>}
Bodies == [sh : {{}} \cup {{k} : k \in SessionKeys}, data : DataLists]

\* What app.blocks.process_api may return or raise.
Outputs == {<<"out">>}
Errors == {[type |-> "ValueError", msg |-> "boom"]}

\* str(error)
str(error) == error.msg

\* The state a new session is seeded with: the stateful blocks' defaults.
seed_state ==
    [id \in {i \in DOMAIN blocks : blocks[i].stateful} |->
        blocks[id].default_value]

\* The lookup without its membership test: every request seeds the entry.
resolve_store_reseed(body) ==
    IF body.sh # {}
    THEN Put(state_holder, CHOOSE k \in body.sh : TRUE, seed_state)
    ELSE state_holder

\* The lookup that assigns the store instead of the entry.
resolve_store_replace(body) ==
    IF body.sh # {}
    THEN LET k == CHOOSE k \in body.sh : TRUE IN
         IF k \notin DOMAIN state_holder
         THEN Put(EmptyDict, k, seed_state)
         ELSE state_holder
    ELSE state_holder

\* The session store after the lookup of body's session_hash.
resolve_store(body) ==
    IF body.sh # {}
    THEN LET k == CHOOSE k \in body.sh : TRUE IN
         IF k \notin DOMAIN state_holder
         THEN Put(state_holder, k, seed_state)
         ELSE state_holder
    ELSE state_holder

\* The handler's frame once it has answered: its locals (body, session_state)
\* are gone, the request and what was done for it remain.
FinishedFrame(r) ==
    [Idle EXCEPT !.pc = "done", !.cookies = r.cookies, !.user = r.user,
                 !.invoked = r.invoked]

\* The dependencies of the route: get_current_user, then login_check.
PredictGate(c, cookies) ==
    /\ reqs[c].pc \in {"idle", "done"}
    /\ LET user == get_current_user(cookies) IN
       IF login_check(user) = "401"
       THEN reqs' = [reqs EXCEPT ![c] =
                [Idle EXCEPT !.pc = "done", !.cookies = cookies,
                             !.status = "401",
                             !.body = DetailBody("Not authenticated")]]
       ELSE reqs' = [reqs EXCEPT ![c] =
                [Idle EXCEPT !.pc = "body", !.cookies = cookies,
                             !.user = user]]
    /\ UNCHANGED <<auth, show_error, share, tokens, state_holder, resp, file_resp>>

\* From the arrival of the body to the call of process_api in the pool.
PredictResolve(c, body) ==
    /\ reqs[c].pc = "body"
    /\ state_holder' = resolve_store(body)
    /\ reqs' = [reqs EXCEPT ![c] =
            [@ EXCEPT !.pc = "pipeline", !.sh = body.sh, !.data = body.data,
                      !.invoked = TRUE,
                      !.handed = IF body.sh # {}
                                 THEN Get(state_holder', body.sh)
                                 ELSE EmptyDict,
                      !.local = EmptyDict]]
    /\ UNCHANGED <<auth, show_error, share, tokens, resp, file_resp>>

\* process_api, running in the pool, assigns into the state it was handed:
\* the session's blob in the store, or the call's own dict.
PipelineWrite(c, id, v) ==
    /\ reqs[c].pc = "pipeline"
    /\ IF reqs[c].sh # {}
       THEN LET k == CHOOSE k \in reqs[c].sh : TRUE IN
            /\ state_holder' = [state_holder EXCEPT ![k] = Put(@, id, v)]
            /\ UNCHANGED reqs
       ELSE /\ reqs' = [reqs EXCEPT ![c].local = Put(@, id, v)]
            /\ UNCHANGED state_holder
    /\ UNCHANGED <<auth, show_error, share, tokens, resp, file_resp>>

\* process_api returns: the handler returns its output.
PredictReturn(c, output) ==
    /\ reqs[c].pc = "pipeline"
    /\ reqs' = [reqs EXCEPT ![c] =
            [FinishedFrame(reqs[c]) EXCEPT
                      !.outcome = OutputBody(output),
                      !.status = "200",
                      !.body = OutputBody(output)]]
    /\ UNCHANGED <<auth, show_error, share, tokens, state_holder, resp, file_resp>>

\* The except clause answering with the envelope whatever show_error is.
except_clause_always_envelope(r, error) ==
    [FinishedFrame(r) EXCEPT !.outcome = ExceptionBody(error),
                             !.status = "500",
                             !.body = ErrorBody(str(error))]

\* The except clause of the handler: the envelope with status 500 under
\* show_error, and the error raised again otherwise.
except_clause(r, error) ==
    IF show_error
    THEN [FinishedFrame(r) EXCEPT !.outcome = ExceptionBody(error),
                                  !.status = "500",
                                  !.body = ErrorBody(str(error))]
    ELSE [FinishedFrame(r) EXCEPT !.outcome = ExceptionBody(error),
                                  !.status = "raise",
                                  !.body = ExceptionBody(error)]

\* process_api raises.
PredictRaise(c, error) ==
    /\ reqs[c].pc = "pipeline"
    /\ reqs' = [reqs EXCEPT ![c] = except_clause(reqs[c], error)]
    /\ UNCHANGED <<auth, show_error, share, tokens, state_holder, resp, file_resp>>

-----------------------------------------------------------------------------
(* safe_join and the static routes. Paths are sequences of characters. *)

PathChars == {"a", ".", "/", "\\"}

Paths == UNION {[1 .. n -> PathChars] : n \in 0 .. MaxPathLen}

STATIC_PATH_LIB == <<"/", "s">>
BUILD_PATH_LIB == <<"/", "b">>

\* os.path.sep and os.path.altsep of the platform (posixpath).
os_path_sep == "/"
os_path_altsep == None

\* str.startswith
startswith(s, prefix) ==
    /\ Len(prefix) <= Len(s)
    /\ SubSeq(s, 1, Len(prefix)) = prefix

\* str.split("/")
RECURSIVE split(_)
split(s) ==
    IF \A i \in 1 .. Len(s) : s[i] # "/"
    THEN <<s>>
    ELSE LET i == CHOOSE i \in 1 .. Len(s) :
                     s[i] = "/" /\ \A j \in 1 .. i - 1 : s[j] # "/"
         IN <<SubSeq(s, 1, i - 1)>> \o split(SubSeq(s, i + 1, Len(s)))

\* "/".join(comps)
RECURSIVE joincomps(_)
joincomps(comps) ==
    IF comps = <<>> THEN <<>>
    ELSE IF Len(comps) = 1 THEN comps[1]
    ELSE comps[1] \o <<"/">> \o joincomps(Tail(comps))

\* The loop of posixpath.normpath over the components.
RECURSIVE collapse(_, _, _)
collapse(comps, new_comps, initial_slashes) ==
    IF comps = <<>> THEN new_comps
    ELSE LET comp == Head(comps) IN
         IF comp = <<>> \/ comp = <<".">>
         THEN collapse(Tail(comps), new_comps, initial_slashes)
         ELSE IF \/ comp # <<".", ".">>
                 \/ (initial_slashes = 0 /\ new_comps = <<>>)
                 \/ (new_comps # <<>> /\ new_comps[Len(new_comps)] = <<".", ".">>)
         THEN collapse(Tail(comps), Append(new_comps, comp), initial_slashes)
         ELSE IF new_comps # <<>>
         THEN collapse(Tail(comps), SubSeq(new_comps, 1, Len(new_comps) - 1),
                       initial_slashes)
         ELSE collapse(Tail(comps), new_comps, initial_slashes)

\* posixpath.normpath
normpath(path) ==
    IF path = <<>> THEN <<".">>
    ELSE LET initial_slashes ==
                 IF ~startswith(path, <<"/">>) THEN 0
                 ELSE IF startswith(path, <<"/", "/">>)
                         /\ ~startswith(path, <<"/", "/", "/">>) THEN 2
                 ELSE 1
             joined == joincomps(collapse(split(path), <<>>, initial_slashes))
             full == [i \in 1 .. initial_slashes |-> "/"] \o joined
         IN IF full = <<>> THEN <<".">> ELSE full

\* os.path.isabs (posixpath)
isabs(s) == startswith(s, <<os_path_sep>>)

\* posixpath.join of two parts
posixjoin(a, b) ==
    IF startswith(b, <<"/">>) THEN b
    ELSE IF a = <<>> \/ a[Len(a)] = "/" THEN a \o b
    ELSE a \o <<"/">> \o b

\* _os_alt_seps of safe_join
os_alt_seps ==
    {sep \in {os_path_sep, os_path_altsep} : sep # None /\ sep # "/"}

\* safe_join without the test filename == "..".
safe_join_no_dotdot(directory, path) ==
    IF path = <<>>
    THEN [tag |-> "raise", path |-> <<>>]
    ELSE LET filename == normpath(path) IN
         IF \/ \E sep \in os_alt_seps : \E i \in 1 .. Len(filename) : filename[i] = sep
            \/ isabs(filename)
            \/ startswith(filename, <<".", ".", "/">>)
         THEN [tag |-> "None", path |-> <<>>]
         ELSE [tag |-> "path", path |-> posixjoin(directory, filename)]

\* safe_join: None, the joined path, or the UnboundLocalError of the empty
\* path (filename is bound only when path is not empty).
safe_join(directory, path) ==
    IF path = <<>>
    THEN [tag |-> "raise", path |-> <<>>]
    ELSE LET filename == normpath(path) IN
         IF \/ \E sep \in os_alt_seps : \E i \in 1 .. Len(filename) : filename[i] = sep
            \/ isabs(filename)
            \/ filename = <<".", ".">>
            \/ startswith(filename, <<".", ".", "/">>)
         THEN [tag |-> "None", path |-> <<>>]
         ELSE [tag |-> "path", path |-> posixjoin(directory, filename)]

\* A request for path on one of the two routes, not answered yet.
FileRequest(route, path) ==
    [route |-> route, path |-> path, status |-> "pending", file |-> <<>>]

\* The body shared by static_resource and build_resource.
serve(route, directory, path) ==
    IF share
    THEN [route |-> route, path |-> path, status |-> "redirect", file |-> path]
    ELSE LET f == safe_join(directory, path) IN
         IF f.tag = "raise"
         THEN [route |-> route, path |-> path, status |-> "raise", file |-> <<>>]
         ELSE IF f.tag # "None"
         THEN [route |-> route, path |-> path, status |-> "200", file |-> f.path]
         ELSE [route |-> route, path |-> path, status |-> "404", file |-> <<>>]

\* static_resource: GET /static/{path}
StaticResource(path) ==
    /\ file_resp = FileRequest("static", path)
    /\ file_resp' = serve("static", STATIC_PATH_LIB, path)
    /\ UNCHANGED <<auth, show_error, share, tokens, state_holder, reqs, resp>>

\* build_resource: GET /assets/{path}
BuildResource(path) ==
    /\ file_resp = FileRequest("assets", path)
    /\ file_resp' = serve("assets", BUILD_PATH_LIB, path)
    /\ UNCHANGED <<auth, show_error, share, tokens, state_holder, reqs, resp>>

-----------------------------------------------------------------------------
(* The server. *)

NoFile == [route |-> "none", path |-> <<>>, status |-> "none", file |-> <<>>]

Init ==
    /\ auth \in Policies
    /\ show_error \in BOOLEAN
    /\ share = FALSE
    /\ tokens = EmptyDict
    /\ state_holder = EmptyDict
    /\ reqs = [c \in Clients |-> Idle]
    /\ resp = NoResp
    /\ file_resp = NoFile

\* The prediction route under logins.
Next ==
    \/ \E u \in Users, p \in Passwords : Login(u, p)
    \/ \E c \in Clients, cookies \in CookieJars : PredictGate(c, cookies)
    \/ \E c \in Clients, body \in Bodies : PredictResolve(c, body)
    \/ \E c \in Clients, id \in DOMAIN seed_state, v \in StateValues :
          PipelineWrite(c, id, v)
    \/ \E c \in Clients, output \in Outputs : PredictReturn(c, output)
    \/ \E c \in Clients, error \in Errors : PredictRaise(c, error)

Spec == Init /\ [][Next]_vars

\* The synchronous routes of the login and of the configuration.
NextAuth ==
    \/ \E u \in Users, p \in Passwords : Login(u, p)
    \/ \E cookies \in CookieJars : GetUser(cookies)
    \/ \E cookies \in CookieJars : GetToken(cookies)
    \/ \E cookies \in CookieJars : Main(cookies)
    \/ \E cookies \in CookieJars : GetConfig(cookies)

SpecAuth == Init /\ [][NextAuth]_vars

\* The static routes.
NextFiles ==
    \/ StaticResource(file_resp.path)
    \/ BuildResource(file_resp.path)

\* One request for any path on either route, with share on or off.
InitFiles ==
    /\ auth = NoAuth
    /\ show_error = FALSE
    /\ share \in BOOLEAN
    /\ tokens = EmptyDict
    /\ state_holder = EmptyDict
    /\ reqs = [c \in Clients |-> Idle]
    /\ resp = NoResp
    /\ file_resp \in {FileRequest(route, path) :
                        route \in {"static", "assets"}, path \in Paths}

SpecFiles == InitFiles /\ [][NextFiles]_vars

-----------------------------------------------------------------------------
(* Properties of the prediction route (Spec). *)

\* The request on connection c bears no cookie that is a key of the token table.
NoValidCookie(c) == Get(tokens, reqs[c].cookies) = None

\* C1: under an auth policy, a predict request whose access-token cookie is
\* absent or is not a key of the token table is answered 401 and process_api
\* is never invoked for it, whatever logins and requests surround it.
C1_UnauthenticatedNeverPredicts ==
    \A c \in Clients :
        (auth.kind # "none" /\ reqs[c].pc # "idle" /\ NoValidCookie(c)) =>
            /\ reqs[c].pc = "done"
            /\ reqs[c].status = "401"
            /\ ~reqs[c].invoked

\* C1 happens: after a login, a request with a cookie that is no key of the
\* table has been refused.
C1_Witness ==
    \E c \in Clients :
        /\ auth.kind # "none"
        /\ tokens # EmptyDict
        /\ reqs[c].cookies # {}
        /\ NoValidCookie(c)
        /\ reqs[c].status = "401"

\* C2: a session entry is seeded once, by the first request bearing its key:
\* it is never removed, a later request with the key is handed the entry as
\* the earlier calls left it, and only a pipeline call holding the entry
\* changes it.
C2_SessionSeededOnce ==
    [][ /\ \A k \in DOMAIN state_holder :
              /\ k \in DOMAIN state_holder'
              /\ state_holder'[k] # state_holder[k] =>
                     \E c \in Clients : /\ reqs[c].pc = "pipeline"
                                        /\ reqs[c].sh = {k}
                                        /\ reqs'[c] = reqs[c]
        /\ \A c \in Clients, k \in SessionKeys :
              (reqs[c].pc = "body" /\ reqs'[c].pc = "pipeline"
                   /\ reqs'[c].sh = {k}) =>
                  /\ k \in DOMAIN state_holder'
                  /\ reqs'[c].handed = state_holder'[k]
                  /\ state_holder'[k] = IF k \in DOMAIN state_holder
                                        THEN state_holder[k]
                                        ELSE seed_state ]_vars

\* C2 happens: a request was handed a session state that an earlier call had
\* changed from the seeded defaults, and that earlier request has answered.
C2_Witness ==
    \E c1, c2 \in Clients :
        /\ c1 # c2
        /\ reqs[c1].pc = "done" /\ reqs[c1].invoked
        /\ reqs[c2].pc = "pipeline" /\ reqs[c2].sh # {}
        /\ reqs[c2].handed # seed_state

\* C6: when process_api raises, the handler answers 500 with the envelope
\* {error: str(error)} under show_error and raises the same error otherwise;
\* when process_api returns, its output is the response.
C6_PipelineOutcomeMapped ==
    \A c \in Clients :
        (reqs[c].pc = "done" /\ reqs[c].invoked) =>
            /\ reqs[c].outcome.kind \in {"exception", "output"}
            /\ reqs[c].outcome.kind = "exception" =>
                   IF show_error
                   THEN /\ reqs[c].status = "500"
                        /\ reqs[c].body.kind = "error"
                        /\ reqs[c].body.msg = reqs[c].outcome.msg
                   ELSE /\ reqs[c].status = "raise"
                        /\ reqs[c].body = reqs[c].outcome
            /\ reqs[c].outcome.kind = "output" =>
                   /\ reqs[c].status = "200"
                   /\ reqs[c].body = reqs[c].outcome

\* C6 happens: one request has been answered after process_api raised and
\* another after it returned.
C6_Witness ==
    \E c1, c2 \in Clients :
        /\ reqs[c1].pc = "done" /\ reqs[c1].outcome.kind = "exception"
        /\ reqs[c2].pc = "done" /\ reqs[c2].outcome.kind = "output"

\* C7: a predict request whose data list is not as long as the declared
\* input components never reaches process_api.
C7_LengthMismatchRejected ==
    \A c \in Clients :
        (reqs[c].pc = "pipeline" /\ reqs[c].invoked) =>
            Len(reqs[c].data) = Len(input_components)

\* C9: at most one pipeline call holding the state of a given session is in
\* flight at any time.
C9_SameSessionSequential ==
    \A c1, c2 \in Clients :
        (c1 # c2 /\ reqs[c1].pc = "pipeline" /\ reqs[c2].pc = "pipeline"
             /\ reqs[c1].sh # {}) =>
            reqs[c1].sh # reqs[c2].sh

\* The entry of session key k is the same before and after the step.
EntryUnchanged(k) ==
    /\ k \in DOMAIN state_holder <=> k \in DOMAIN state_holder'
    /\ (k \in DOMAIN state_holder /\ k \in DOMAIN state_holder') =>
           state_holder'[k] = state_holder[k]

\* C10: a predict request changes no entry of the session store but the one
\* of its own session_hash, and a request without session_hash changes none:
\* its pipeline call is handed an empty state of its own.
C10_OnlyOwnSessionEntry ==
    /\ [][ /\ \A c \in Clients, k \in SessionKeys :
                 (reqs'[c] # reqs[c] /\ reqs[c].sh # {k} /\ reqs'[c].sh # {k})
                     => EntryUnchanged(k)
           /\ \A k \in SessionKeys :
                 ~EntryUnchanged(k) =>
                     \E c \in Clients : /\ reqs[c].pc \in {"body", "pipeline"}
                                        /\ reqs'[c].pc = "pipeline"
                                        /\ reqs'[c].sh = {k} ]_vars
    /\ [](\A c \in Clients :
              (reqs[c].pc = "pipeline" /\ reqs[c].sh = {}) =>
                  reqs[c].handed = EmptyDict)

\* C10 happens: the pipeline call of a request without session_hash has
\* written into its own state while the store holds a changed session.
C10_Witness ==
    \E c \in Clients, k \in DOMAIN state_holder :
        /\ reqs[c].pc = "pipeline" /\ reqs[c].sh = {}
        /\ reqs[c].local # EmptyDict
        /\ state_holder[k] # seed_state

-----------------------------------------------------------------------------
(* Properties of the login and configuration routes (SpecAuth). *)

\* The step is an exchange on the named route.
Answers(route) == resp' # resp /\ resp'.route = route

\* C3: with a table policy, login answers 302, stores a new token for the
\* username and sets it as the cookie exactly when the username is a key of
\* the table and its value is the password; otherwise it answers 400.
C3_TableLoginIff ==
    [][ (auth.kind = "table" /\ (Answers("login") \/ tokens' # tokens)) =>
            IF /\ resp'.username \in DOMAIN auth.table
               /\ auth.table[resp'.username] = resp'.password
            THEN /\ resp'.route = "login"
                 /\ resp'.status = "302"
                 /\ \E t \in TokenSpace :
                       /\ resp'.token = {t}
                       /\ t \notin DOMAIN tokens
                       /\ tokens' = Put(tokens, t, resp'.username)
            ELSE /\ resp'.route = "login"
                 /\ resp'.status = "400"
                 /\ resp'.token = {}
                 /\ tokens' = tokens ]_vars

\* C3 happens: after a successful login, a login with a username of the
\* table and another password has been refused.
C3_Witness ==
    /\ auth.kind = "table"
    /\ tokens # EmptyDict
    /\ resp.route = "login"
    /\ resp.status = "400"
    /\ resp.username \in DOMAIN auth.table

\* C5: a login that issues token t for username u maps t to u, an entry of
\* the token table is never removed or mapped to another username, and
\* GET /token and GET /user report the table's username for the cookie.
C5_TokenKeepsUser ==
    [][ /\ \A t \in DOMAIN tokens :
              t \in DOMAIN tokens' /\ tokens'[t] = tokens[t]
        /\ (Answers("login") /\ resp'.status = "302") =>
               \A t \in resp'.token :
                   t \in DOMAIN tokens' /\ tokens'[t] = resp'.username
        /\ (Answers("token") \/ Answers("user")) =>
               resp'.user = Get(tokens', resp'.cookies)
        /\ Answers("token") => resp'.token = resp'.cookies ]_vars

\* C5 happens: GET /token reports the user of a token while the table holds
\* another token, of another user.
C5_Witness ==
    /\ resp.route = "token"
    /\ resp.user # None
    /\ \E t \in DOMAIN tokens : t \notin resp.cookies /\ tokens[t] # resp.user

\* The caller with these cookies passes for logged in.
LoggedIn(cookies) == auth.kind = "none" \/ Get(tokens, cookies) # None

\* C8 as stated: GET /config answers the configuration to a caller who is
\* logged in (or when no policy is set) and the reduced document
\* {auth_required, auth_message} to any other caller.
C8_ConfigReducedForAnonymous ==
    [][ Answers("config") =>
            IF LoggedIn(resp'.cookies)
            THEN resp'.doc = config
            ELSE resp'.doc = auth_stub ]_vars

\* C8 amended: GET /config answers 200 with the configuration to a caller who
\* is logged in (or when no policy is set) and 401 with no document to any
\* other caller; the reduced document is what GET / embeds for that caller.
C8_ConfigGated ==
    [][ /\ Answers("config") =>
               IF LoggedIn(resp'.cookies)
               THEN resp'.status = "200" /\ resp'.doc = config
               ELSE resp'.status = "401" /\ resp'.doc = NoDoc
        /\ Answers("main") =>
               /\ resp'.status = "200"
               /\ resp'.doc = IF LoggedIn(resp'.cookies)
                              THEN config ELSE auth_stub ]_vars

\* C8 happens: after a login, GET /config has refused a caller who is not
\* logged in.
C8_Witness ==
    /\ tokens # EmptyDict
    /\ resp.route = "config"
    /\ resp.status = "401"

-----------------------------------------------------------------------------
(* Properties of safe_join behind the static routes (SpecFiles). *)

\* The path has s as a substring.
Contains(path, s) ==
    \E i \in 1 .. Len(path) - Len(s) + 1 :
        SubSeq(path, i, i + Len(s) - 1) = s

\* Walking the components from depth 0, a ".." steps above the start.
RECURSIVE ClimbsAbove(_, _)
ClimbsAbove(comps, depth) ==
    IF comps = <<>> THEN FALSE
    ELSE LET comp == Head(comps) IN
         IF comp = <<>> \/ comp = <<".">>
         THEN ClimbsAbove(Tail(comps), depth)
         ELSE IF comp = <<".", ".">>
         THEN depth = 0 \/ ClimbsAbove(Tail(comps), depth - 1)
         ELSE ClimbsAbove(Tail(comps), depth + 1)

\* The relative path leads out of the directory it is resolved in.
Escapes(path) == ClimbsAbove(split(path), 0)

\* The path lies in the base directory, lexically.
Inside(base, path) ==
    \/ path = base
    \/ /\ startswith(path, base \o <<"/">>)
       /\ ~Escapes(SubSeq(path, Len(base) + 2, Len(path)))

\* The route called safe_join, which returned or raised.
Joined == ~share /\ file_resp.status # "pending"

\* The base directory of the route that answered.
Base == IF file_resp.route = "static" THEN STATIC_PATH_LIB ELSE BUILD_PATH_LIB

====
